---- MODULE Spec2Model ----
(***************************************************************************)
(* State-machine model of src/backend.py: the EmailProcessor triage        *)
(* pipeline (filter, sentiment, priority, extraction, drafting, store,     *)
(* ordering) and the HTTP handlers that drive it over the emails table,    *)
(* each request served by a thread of its own.                             *)
(*                                                                         *)
(* A Python str is modelled as the sequence of its code points, so that    *)
(* lower(), strip(), "in", split(), re.findall(), json.dumps() and the     *)
(* comparison of strings are computed character by character.  The         *)
(* character tables are those of Unicode 14.0 (CPython 3.11).  Python's    *)
(* None is the value None, which is no str.                                *)
(***************************************************************************)
EXTENDS Naturals, Integers, Sequences, FiniteSets, TLC

\* None: no character has a negative code point
None == <<-1>>

-----------------------------------------------------------------------------
(* Characters *)

\* c lies in a range of the table, which lists the ranges as lo, hi, lo, hi..
InRanges(c, table) ==
    \E k \in 1..(Len(table) \div 2) : table[2 * k - 1] <= c /\ c <= table[2 * k]

\* A-Z
UpperChars == 65..90

\* a-z
LowerChars == 97..122

\* A-Za-z
Letters == UpperChars \cup LowerChars

\* 0-9
DigitChars == 48..57

\* The characters str.strip() removes (str.isspace)
Whitespace == <<
    9,13, 28,32, 133,133, 160,160, 5760,5760, 8192,8202, 8232,8233,
    8239,8239, 8287,8287, 12288,12288>>

\* The characters \d matches in a str pattern (Unicode decimal digits)
DecimalDigits == <<
    48,57, 1632,1641, 1776,1785, 1984,1993, 2406,2415, 2534,2543,
    2662,2671, 2790,2799, 2918,2927, 3046,3055, 3174,3183, 3302,3311,
    3430,3439, 3558,3567, 3664,3673, 3792,3801, 3872,3881, 4160,4169,
    4240,4249, 6112,6121, 6160,6169, 6470,6479, 6608,6617, 6784,6793,
    6800,6809, 6992,7001, 7088,7097, 7232,7241, 7248,7257, 42528,42537,
    43216,43225, 43264,43273, 43472,43481, 43504,43513, 43600,43609,
    44016,44025, 65296,65305, 66720,66729, 68912,68921, 69734,69743,
    69872,69881, 69942,69951, 70096,70105, 70384,70393, 70736,70745,
    70864,70873, 71248,71257, 71360,71369, 71472,71481, 71904,71913,
    72016,72025, 72784,72793, 73040,73049, 73120,73129, 92768,92777,
    92864,92873, 93008,93017, 120782,120831, 123200,123209,
    123632,123641, 125264,125273, 130032,130041>>

\* The characters \w matches in a str pattern (alphanumeric, or "_")
WordChars == <<
    48,57, 65,90, 95,95, 97,122, 170,170, 178,179, 181,181, 185,186,
    188,190, 192,214, 216,246, 248,705, 710,721, 736,740, 748,748,
    750,750, 880,884, 886,887, 890,893, 895,895, 902,902, 904,906,
    908,908, 910,929, 931,1013, 1015,1153, 1162,1327, 1329,1366,
    1369,1369, 1376,1416, 1488,1514, 1519,1522, 1568,1610, 1632,1641,
    1646,1647, 1649,1747, 1749,1749, 1765,1766, 1774,1788, 1791,1791,
    1808,1808, 1810,1839, 1869,1957, 1969,1969, 1984,2026, 2036,2037,
    2042,2042, 2048,2069, 2074,2074, 2084,2084, 2088,2088, 2112,2136,
    2144,2154, 2160,2183, 2185,2190, 2208,2249, 2308,2361, 2365,2365,
    2384,2384, 2392,2401, 2406,2415, 2417,2432, 2437,2444, 2447,2448,
    2451,2472, 2474,2480, 2482,2482, 2486,2489, 2493,2493, 2510,2510,
    2524,2525, 2527,2529, 2534,2545, 2548,2553, 2556,2556, 2565,2570,
    2575,2576, 2579,2600, 2602,2608, 2610,2611, 2613,2614, 2616,2617,
    2649,2652, 2654,2654, 2662,2671, 2674,2676, 2693,2701, 2703,2705,
    2707,2728, 2730,2736, 2738,2739, 2741,2745, 2749,2749, 2768,2768,
    2784,2785, 2790,2799, 2809,2809, 2821,2828, 2831,2832, 2835,2856,
    2858,2864, 2866,2867, 2869,2873, 2877,2877, 2908,2909, 2911,2913,
    2918,2927, 2929,2935, 2947,2947, 2949,2954, 2958,2960, 2962,2965,
    2969,2970, 2972,2972, 2974,2975, 2979,2980, 2984,2986, 2990,3001,
    3024,3024, 3046,3058, 3077,3084, 3086,3088, 3090,3112, 3114,3129,
    3133,3133, 3160,3162, 3165,3165, 3168,3169, 3174,3183, 3192,3198,
    3200,3200, 3205,3212, 3214,3216, 3218,3240, 3242,3251, 3253,3257,
    3261,3261, 3293,3294, 3296,3297, 3302,3311, 3313,3314, 3332,3340,
    3342,3344, 3346,3386, 3389,3389, 3406,3406, 3412,3414, 3416,3425,
    3430,3448, 3450,3455, 3461,3478, 3482,3505, 3507,3515, 3517,3517,
    3520,3526, 3558,3567, 3585,3632, 3634,3635, 3648,3654, 3664,3673,
    3713,3714, 3716,3716, 3718,3722, 3724,3747, 3749,3749, 3751,3760,
    3762,3763, 3773,3773, 3776,3780, 3782,3782, 3792,3801, 3804,3807,
    3840,3840, 3872,3891, 3904,3911, 3913,3948, 3976,3980, 4096,4138,
    4159,4169, 4176,4181, 4186,4189, 4193,4193, 4197,4198, 4206,4208,
    4213,4225, 4238,4238, 4240,4249, 4256,4293, 4295,4295, 4301,4301,
    4304,4346, 4348,4680, 4682,4685, 4688,4694, 4696,4696, 4698,4701,
    4704,4744, 4746,4749, 4752,4784, 4786,4789, 4792,4798, 4800,4800,
    4802,4805, 4808,4822, 4824,4880, 4882,4885, 4888,4954, 4969,4988,
    4992,5007, 5024,5109, 5112,5117, 5121,5740, 5743,5759, 5761,5786,
    5792,5866, 5870,5880, 5888,5905, 5919,5937, 5952,5969, 5984,5996,
    5998,6000, 6016,6067, 6103,6103, 6108,6108, 6112,6121, 6128,6137,
    6160,6169, 6176,6264, 6272,6276, 6279,6312, 6314,6314, 6320,6389,
    6400,6430, 6470,6509, 6512,6516, 6528,6571, 6576,6601, 6608,6618,
    6656,6678, 6688,6740, 6784,6793, 6800,6809, 6823,6823, 6917,6963,
    6981,6988, 6992,7001, 7043,7072, 7086,7141, 7168,7203, 7232,7241,
    7245,7293, 7296,7304, 7312,7354, 7357,7359, 7401,7404, 7406,7411,
    7413,7414, 7418,7418, 7424,7615, 7680,7957, 7960,7965, 7968,8005,
    8008,8013, 8016,8023, 8025,8025, 8027,8027, 8029,8029, 8031,8061,
    8064,8116, 8118,8124, 8126,8126, 8130,8132, 8134,8140, 8144,8147,
    8150,8155, 8160,8172, 8178,8180, 8182,8188, 8304,8305, 8308,8313,
    8319,8329, 8336,8348, 8450,8450, 8455,8455, 8458,8467, 8469,8469,
    8473,8477, 8484,8484, 8486,8486, 8488,8488, 8490,8493, 8495,8505,
    8508,8511, 8517,8521, 8526,8526, 8528,8585, 9312,9371, 9450,9471,
    10102,10131, 11264,11492, 11499,11502, 11506,11507, 11517,11517,
    11520,11557, 11559,11559, 11565,11565, 11568,11623, 11631,11631,
    11648,11670, 11680,11686, 11688,11694, 11696,11702, 11704,11710,
    11712,11718, 11720,11726, 11728,11734, 11736,11742, 11823,11823,
    12293,12295, 12321,12329, 12337,12341, 12344,12348, 12353,12438,
    12445,12447, 12449,12538, 12540,12543, 12549,12591, 12593,12686,
    12690,12693, 12704,12735, 12784,12799, 12832,12841, 12872,12879,
    12881,12895, 12928,12937, 12977,12991, 13312,19903, 19968,42124,
    42192,42237, 42240,42508, 42512,42539, 42560,42606, 42623,42653,
    42656,42735, 42775,42783, 42786,42888, 42891,42954, 42960,42961,
    42963,42963, 42965,42969, 42994,43009, 43011,43013, 43015,43018,
    43020,43042, 43056,43061, 43072,43123, 43138,43187, 43216,43225,
    43250,43255, 43259,43259, 43261,43262, 43264,43301, 43312,43334,
    43360,43388, 43396,43442, 43471,43481, 43488,43492, 43494,43518,
    43520,43560, 43584,43586, 43588,43595, 43600,43609, 43616,43638,
    43642,43642, 43646,43695, 43697,43697, 43701,43702, 43705,43709,
    43712,43712, 43714,43714, 43739,43741, 43744,43754, 43762,43764,
    43777,43782, 43785,43790, 43793,43798, 43808,43814, 43816,43822,
    43824,43866, 43868,43881, 43888,44002, 44016,44025, 44032,55203,
    55216,55238, 55243,55291, 63744,64109, 64112,64217, 64256,64262,
    64275,64279, 64285,64285, 64287,64296, 64298,64310, 64312,64316,
    64318,64318, 64320,64321, 64323,64324, 64326,64433, 64467,64829,
    64848,64911, 64914,64967, 65008,65019, 65136,65140, 65142,65276,
    65296,65305, 65313,65338, 65345,65370, 65382,65470, 65474,65479,
    65482,65487, 65490,65495, 65498,65500, 65536,65547, 65549,65574,
    65576,65594, 65596,65597, 65599,65613, 65616,65629, 65664,65786,
    65799,65843, 65856,65912, 65930,65931, 66176,66204, 66208,66256,
    66273,66299, 66304,66339, 66349,66378, 66384,66421, 66432,66461,
    66464,66499, 66504,66511, 66513,66517, 66560,66717, 66720,66729,
    66736,66771, 66776,66811, 66816,66855, 66864,66915, 66928,66938,
    66940,66954, 66956,66962, 66964,66965, 66967,66977, 66979,66993,
    66995,67001, 67003,67004, 67072,67382, 67392,67413, 67424,67431,
    67456,67461, 67463,67504, 67506,67514, 67584,67589, 67592,67592,
    67594,67637, 67639,67640, 67644,67644, 67647,67669, 67672,67702,
    67705,67742, 67751,67759, 67808,67826, 67828,67829, 67835,67867,
    67872,67897, 67968,68023, 68028,68047, 68050,68096, 68112,68115,
    68117,68119, 68121,68149, 68160,68168, 68192,68222, 68224,68255,
    68288,68295, 68297,68324, 68331,68335, 68352,68405, 68416,68437,
    68440,68466, 68472,68497, 68521,68527, 68608,68680, 68736,68786,
    68800,68850, 68858,68899, 68912,68921, 69216,69246, 69248,69289,
    69296,69297, 69376,69415, 69424,69445, 69457,69460, 69488,69505,
    69552,69579, 69600,69622, 69635,69687, 69714,69743, 69745,69746,
    69749,69749, 69763,69807, 69840,69864, 69872,69881, 69891,69926,
    69942,69951, 69956,69956, 69959,69959, 69968,70002, 70006,70006,
    70019,70066, 70081,70084, 70096,70106, 70108,70108, 70113,70132,
    70144,70161, 70163,70187, 70272,70278, 70280,70280, 70282,70285,
    70287,70301, 70303,70312, 70320,70366, 70384,70393, 70405,70412,
    70415,70416, 70419,70440, 70442,70448, 70450,70451, 70453,70457,
    70461,70461, 70480,70480, 70493,70497, 70656,70708, 70727,70730,
    70736,70745, 70751,70753, 70784,70831, 70852,70853, 70855,70855,
    70864,70873, 71040,71086, 71128,71131, 71168,71215, 71236,71236,
    71248,71257, 71296,71338, 71352,71352, 71360,71369, 71424,71450,
    71472,71483, 71488,71494, 71680,71723, 71840,71922, 71935,71942,
    71945,71945, 71948,71955, 71957,71958, 71960,71983, 71999,71999,
    72001,72001, 72016,72025, 72096,72103, 72106,72144, 72161,72161,
    72163,72163, 72192,72192, 72203,72242, 72250,72250, 72272,72272,
    72284,72329, 72349,72349, 72368,72440, 72704,72712, 72714,72750,
    72768,72768, 72784,72812, 72818,72847, 72960,72966, 72968,72969,
    72971,73008, 73030,73030, 73040,73049, 73056,73061, 73063,73064,
    73066,73097, 73112,73112, 73120,73129, 73440,73458, 73648,73648,
    73664,73684, 73728,74649, 74752,74862, 74880,75075, 77712,77808,
    77824,78894, 82944,83526, 92160,92728, 92736,92766, 92768,92777,
    92784,92862, 92864,92873, 92880,92909, 92928,92975, 92992,92995,
    93008,93017, 93019,93025, 93027,93047, 93053,93071, 93760,93846,
    93952,94026, 94032,94032, 94099,94111, 94176,94177, 94179,94179,
    94208,100343, 100352,101589, 101632,101640, 110576,110579,
    110581,110587, 110589,110590, 110592,110882, 110928,110930,
    110948,110951, 110960,111355, 113664,113770, 113776,113788,
    113792,113800, 113808,113817, 119520,119539, 119648,119672,
    119808,119892, 119894,119964, 119966,119967, 119970,119970,
    119973,119974, 119977,119980, 119982,119993, 119995,119995,
    119997,120003, 120005,120069, 120071,120074, 120077,120084,
    120086,120092, 120094,120121, 120123,120126, 120128,120132,
    120134,120134, 120138,120144, 120146,120485, 120488,120512,
    120514,120538, 120540,120570, 120572,120596, 120598,120628,
    120630,120654, 120656,120686, 120688,120712, 120714,120744,
    120746,120770, 120772,120779, 120782,120831, 122624,122654,
    123136,123180, 123191,123197, 123200,123209, 123214,123214,
    123536,123565, 123584,123627, 123632,123641, 124896,124902,
    124904,124907, 124909,124910, 124912,124926, 124928,125124,
    125127,125135, 125184,125251, 125259,125259, 125264,125273,
    126065,126123, 126125,126127, 126129,126132, 126209,126253,
    126255,126269, 126464,126467, 126469,126495, 126497,126498,
    126500,126500, 126503,126503, 126505,126514, 126516,126519,
    126521,126521, 126523,126523, 126530,126530, 126535,126535,
    126537,126537, 126539,126539, 126541,126543, 126545,126546,
    126548,126548, 126551,126551, 126553,126553, 126555,126555,
    126557,126557, 126559,126559, 126561,126562, 126564,126564,
    126567,126570, 126572,126578, 126580,126583, 126585,126588,
    126590,126590, 126592,126601, 126603,126619, 126625,126627,
    126629,126633, 126635,126651, 127232,127244, 130032,130041,
    131072,173791, 173824,177976, 177984,178205, 178208,183969,
    183984,191456, 194560,195101, 196608,201546>>

\* The characters with the property Case_Ignorable
CaseIgnorable == <<
    39,39, 46,46, 58,58, 94,94, 96,96, 168,168, 173,173, 175,175,
    180,180, 183,184, 688,879, 884,885, 890,890, 900,901, 903,903,
    1155,1161, 1369,1369, 1375,1375, 1425,1469, 1471,1471, 1473,1474,
    1476,1477, 1479,1479, 1524,1524, 1536,1541, 1552,1562, 1564,1564,
    1600,1600, 1611,1631, 1648,1648, 1750,1757, 1759,1768, 1770,1773,
    1807,1807, 1809,1809, 1840,1866, 1958,1968, 2027,2037, 2042,2042,
    2045,2045, 2070,2093, 2137,2139, 2184,2184, 2192,2193, 2200,2207,
    2249,2306, 2362,2362, 2364,2364, 2369,2376, 2381,2381, 2385,2391,
    2402,2403, 2417,2417, 2433,2433, 2492,2492, 2497,2500, 2509,2509,
    2530,2531, 2558,2558, 2561,2562, 2620,2620, 2625,2626, 2631,2632,
    2635,2637, 2641,2641, 2672,2673, 2677,2677, 2689,2690, 2748,2748,
    2753,2757, 2759,2760, 2765,2765, 2786,2787, 2810,2815, 2817,2817,
    2876,2876, 2879,2879, 2881,2884, 2893,2893, 2901,2902, 2914,2915,
    2946,2946, 3008,3008, 3021,3021, 3072,3072, 3076,3076, 3132,3132,
    3134,3136, 3142,3144, 3146,3149, 3157,3158, 3170,3171, 3201,3201,
    3260,3260, 3263,3263, 3270,3270, 3276,3277, 3298,3299, 3328,3329,
    3387,3388, 3393,3396, 3405,3405, 3426,3427, 3457,3457, 3530,3530,
    3538,3540, 3542,3542, 3633,3633, 3636,3642, 3654,3662, 3761,3761,
    3764,3772, 3782,3782, 3784,3789, 3864,3865, 3893,3893, 3895,3895,
    3897,3897, 3953,3966, 3968,3972, 3974,3975, 3981,3991, 3993,4028,
    4038,4038, 4141,4144, 4146,4151, 4153,4154, 4157,4158, 4184,4185,
    4190,4192, 4209,4212, 4226,4226, 4229,4230, 4237,4237, 4253,4253,
    4348,4348, 4957,4959, 5906,5908, 5938,5939, 5970,5971, 6002,6003,
    6068,6069, 6071,6077, 6086,6086, 6089,6099, 6103,6103, 6109,6109,
    6155,6159, 6211,6211, 6277,6278, 6313,6313, 6432,6434, 6439,6440,
    6450,6450, 6457,6459, 6679,6680, 6683,6683, 6742,6742, 6744,6750,
    6752,6752, 6754,6754, 6757,6764, 6771,6780, 6783,6783, 6823,6823,
    6832,6862, 6912,6915, 6964,6964, 6966,6970, 6972,6972, 6978,6978,
    7019,7027, 7040,7041, 7074,7077, 7080,7081, 7083,7085, 7142,7142,
    7144,7145, 7149,7149, 7151,7153, 7212,7219, 7222,7223, 7288,7293,
    7376,7378, 7380,7392, 7394,7400, 7405,7405, 7412,7412, 7416,7417,
    7468,7530, 7544,7544, 7579,7679, 8125,8125, 8127,8129, 8141,8143,
    8157,8159, 8173,8175, 8189,8190, 8203,8207, 8216,8217, 8228,8228,
    8231,8231, 8234,8238, 8288,8292, 8294,8303, 8305,8305, 8319,8319,
    8336,8348, 8400,8432, 11388,11389, 11503,11505, 11631,11631,
    11647,11647, 11744,11775, 11823,11823, 12293,12293, 12330,12333,
    12337,12341, 12347,12347, 12441,12446, 12540,12542, 40981,40981,
    42232,42237, 42508,42508, 42607,42610, 42612,42621, 42623,42623,
    42652,42655, 42736,42737, 42752,42785, 42864,42864, 42888,42890,
    42994,42996, 43000,43001, 43010,43010, 43014,43014, 43019,43019,
    43045,43046, 43052,43052, 43204,43205, 43232,43249, 43263,43263,
    43302,43309, 43335,43345, 43392,43394, 43443,43443, 43446,43449,
    43452,43453, 43471,43471, 43493,43494, 43561,43566, 43569,43570,
    43573,43574, 43587,43587, 43596,43596, 43632,43632, 43644,43644,
    43696,43696, 43698,43700, 43703,43704, 43710,43711, 43713,43713,
    43741,43741, 43756,43757, 43763,43764, 43766,43766, 43867,43871,
    43881,43883, 44005,44005, 44008,44008, 44013,44013, 64286,64286,
    64434,64450, 65024,65039, 65043,65043, 65056,65071, 65106,65106,
    65109,65109, 65279,65279, 65287,65287, 65294,65294, 65306,65306,
    65342,65342, 65344,65344, 65392,65392, 65438,65439, 65507,65507,
    65529,65531, 66045,66045, 66272,66272, 66422,66426, 67456,67461,
    67463,67504, 67506,67514, 68097,68099, 68101,68102, 68108,68111,
    68152,68154, 68159,68159, 68325,68326, 68900,68903, 69291,69292,
    69446,69456, 69506,69509, 69633,69633, 69688,69702, 69744,69744,
    69747,69748, 69759,69761, 69811,69814, 69817,69818, 69821,69821,
    69826,69826, 69837,69837, 69888,69890, 69927,69931, 69933,69940,
    70003,70003, 70016,70017, 70070,70078, 70089,70092, 70095,70095,
    70191,70193, 70196,70196, 70198,70199, 70206,70206, 70367,70367,
    70371,70378, 70400,70401, 70459,70460, 70464,70464, 70502,70508,
    70512,70516, 70712,70719, 70722,70724, 70726,70726, 70750,70750,
    70835,70840, 70842,70842, 70847,70848, 70850,70851, 71090,71093,
    71100,71101, 71103,71104, 71132,71133, 71219,71226, 71229,71229,
    71231,71232, 71339,71339, 71341,71341, 71344,71349, 71351,71351,
    71453,71455, 71458,71461, 71463,71467, 71727,71735, 71737,71738,
    71995,71996, 71998,71998, 72003,72003, 72148,72151, 72154,72155,
    72160,72160, 72193,72202, 72243,72248, 72251,72254, 72263,72263,
    72273,72278, 72281,72283, 72330,72342, 72344,72345, 72752,72758,
    72760,72765, 72767,72767, 72850,72871, 72874,72880, 72882,72883,
    72885,72886, 73009,73014, 73018,73018, 73020,73021, 73023,73029,
    73031,73031, 73104,73105, 73109,73109, 73111,73111, 73459,73460,
    78896,78904, 92912,92916, 92976,92982, 92992,92995, 94031,94031,
    94095,94111, 94176,94177, 94179,94180, 110576,110579, 110581,110587,
    110589,110590, 113821,113822, 113824,113827, 118528,118573,
    118576,118598, 119143,119145, 119155,119170, 119173,119179,
    119210,119213, 119362,119364, 121344,121398, 121403,121452,
    121461,121461, 121476,121476, 121499,121503, 121505,121519,
    122880,122886, 122888,122904, 122907,122913, 122915,122916,
    122918,122922, 123184,123197, 123566,123566, 123628,123631,
    125136,125142, 125252,125259, 127995,127999, 917505,917505,
    917536,917631, 917760,917999>>

\* The characters with the property Cased
Cased == <<
    65,90, 97,122, 170,170, 181,181, 186,186, 192,214, 216,246,
    248,442, 444,447, 452,659, 661,696, 704,705, 736,740, 837,837,
    880,883, 886,887, 890,893, 895,895, 902,902, 904,906, 908,908,
    910,929, 931,1013, 1015,1153, 1162,1327, 1329,1366, 1376,1416,
    4256,4293, 4295,4295, 4301,4301, 4304,4346, 4349,4351, 5024,5109,
    5112,5117, 7296,7304, 7312,7354, 7357,7359, 7424,7615, 7680,7957,
    7960,7965, 7968,8005, 8008,8013, 8016,8023, 8025,8025, 8027,8027,
    8029,8029, 8031,8061, 8064,8116, 8118,8124, 8126,8126, 8130,8132,
    8134,8140, 8144,8147, 8150,8155, 8160,8172, 8178,8180, 8182,8188,
    8305,8305, 8319,8319, 8336,8348, 8450,8450, 8455,8455, 8458,8467,
    8469,8469, 8473,8477, 8484,8484, 8486,8486, 8488,8488, 8490,8493,
    8495,8500, 8505,8505, 8508,8511, 8517,8521, 8526,8526, 8544,8575,
    8579,8580, 9398,9449, 11264,11492, 11499,11502, 11506,11507,
    11520,11557, 11559,11559, 11565,11565, 42560,42605, 42624,42653,
    42786,42887, 42891,42894, 42896,42954, 42960,42961, 42963,42963,
    42965,42969, 42997,42998, 43000,43002, 43824,43866, 43868,43880,
    43888,43967, 64256,64262, 64275,64279, 65313,65338, 65345,65370,
    66560,66639, 66736,66771, 66776,66811, 66928,66938, 66940,66954,
    66956,66962, 66964,66965, 66967,66977, 66979,66993, 66995,67001,
    67003,67004, 67456,67456, 67459,67461, 67463,67504, 67506,67514,
    68736,68786, 68800,68850, 71840,71903, 93760,93823, 119808,119892,
    119894,119964, 119966,119967, 119970,119970, 119973,119974,
    119977,119980, 119982,119993, 119995,119995, 119997,120003,
    120005,120069, 120071,120074, 120077,120084, 120086,120092,
    120094,120121, 120123,120126, 120128,120132, 120134,120134,
    120138,120144, 120146,120485, 120488,120512, 120514,120538,
    120540,120570, 120572,120596, 120598,120628, 120630,120654,
    120656,120686, 120688,120712, 120714,120744, 120746,120770,
    120772,120779, 122624,122633, 122635,122654, 125184,125251,
    127280,127305, 127312,127337, 127344,127369>>

\* The simple lowercase mappings, listed as lo, hi, step, to: every step-th
\* character of lo..hi maps to the character as far from to as it is from lo
LowerTable == <<
    65,90,1,97, 192,214,1,224, 216,222,1,248, 256,302,2,257,
    306,310,2,307, 313,327,2,314, 330,374,2,331, 376,376,1,255,
    377,381,2,378, 385,385,1,595, 386,388,2,387, 390,390,1,596,
    391,391,1,392, 393,394,1,598, 395,395,1,396, 398,398,1,477,
    399,399,1,601, 400,400,1,603, 401,401,1,402, 403,403,1,608,
    404,404,1,611, 406,406,1,617, 407,407,1,616, 408,408,1,409,
    412,412,1,623, 413,413,1,626, 415,415,1,629, 416,420,2,417,
    422,422,1,640, 423,423,1,424, 425,425,1,643, 428,428,1,429,
    430,430,1,648, 431,431,1,432, 433,434,1,650, 435,437,2,436,
    439,439,1,658, 440,440,1,441, 444,444,1,445, 452,452,1,454,
    453,453,1,454, 455,455,1,457, 456,456,1,457, 458,458,1,460,
    459,475,2,460, 478,494,2,479, 497,497,1,499, 498,500,2,499,
    502,502,1,405, 503,503,1,447, 504,542,2,505, 544,544,1,414,
    546,562,2,547, 570,570,1,11365, 571,571,1,572, 573,573,1,410,
    574,574,1,11366, 577,577,1,578, 579,579,1,384, 580,580,1,649,
    581,581,1,652, 582,590,2,583, 880,882,2,881, 886,886,1,887,
    895,895,1,1011, 902,902,1,940, 904,906,1,941, 908,908,1,972,
    910,911,1,973, 913,929,1,945, 931,939,1,963, 975,975,1,983,
    984,1006,2,985, 1012,1012,1,952, 1015,1015,1,1016, 1017,1017,1,1010,
    1018,1018,1,1019, 1021,1023,1,891, 1024,1039,1,1104,
    1040,1071,1,1072, 1120,1152,2,1121, 1162,1214,2,1163,
    1216,1216,1,1231, 1217,1229,2,1218, 1232,1326,2,1233,
    1329,1366,1,1377, 4256,4293,1,11520, 4295,4295,1,11559,
    4301,4301,1,11565, 5024,5103,1,43888, 5104,5109,1,5112,
    7312,7354,1,4304, 7357,7359,1,4349, 7680,7828,2,7681,
    7838,7838,1,223, 7840,7934,2,7841, 7944,7951,1,7936,
    7960,7965,1,7952, 7976,7983,1,7968, 7992,7999,1,7984,
    8008,8013,1,8000, 8025,8031,2,8017, 8040,8047,1,8032,
    8072,8079,1,8064, 8088,8095,1,8080, 8104,8111,1,8096,
    8120,8121,1,8112, 8122,8123,1,8048, 8124,8124,1,8115,
    8136,8139,1,8050, 8140,8140,1,8131, 8152,8153,1,8144,
    8154,8155,1,8054, 8168,8169,1,8160, 8170,8171,1,8058,
    8172,8172,1,8165, 8184,8185,1,8056, 8186,8187,1,8060,
    8188,8188,1,8179, 8486,8486,1,969, 8490,8490,1,107, 8491,8491,1,229,
    8498,8498,1,8526, 8544,8559,1,8560, 8579,8579,1,8580,
    9398,9423,1,9424, 11264,11311,1,11312, 11360,11360,1,11361,
    11362,11362,1,619, 11363,11363,1,7549, 11364,11364,1,637,
    11367,11371,2,11368, 11373,11373,1,593, 11374,11374,1,625,
    11375,11375,1,592, 11376,11376,1,594, 11378,11378,1,11379,
    11381,11381,1,11382, 11390,11391,1,575, 11392,11490,2,11393,
    11499,11501,2,11500, 11506,11506,1,11507, 42560,42604,2,42561,
    42624,42650,2,42625, 42786,42798,2,42787, 42802,42862,2,42803,
    42873,42875,2,42874, 42877,42877,1,7545, 42878,42886,2,42879,
    42891,42891,1,42892, 42893,42893,1,613, 42896,42898,2,42897,
    42902,42920,2,42903, 42922,42922,1,614, 42923,42923,1,604,
    42924,42924,1,609, 42925,42925,1,620, 42926,42926,1,618,
    42928,42928,1,670, 42929,42929,1,647, 42930,42930,1,669,
    42931,42931,1,43859, 42932,42946,2,42933, 42948,42948,1,42900,
    42949,42949,1,642, 42950,42950,1,7566, 42951,42953,2,42952,
    42960,42960,1,42961, 42966,42968,2,42967, 42997,42997,1,42998,
    65313,65338,1,65345, 66560,66599,1,66600, 66736,66771,1,66776,
    66928,66938,1,66967, 66940,66954,1,66979, 66956,66962,1,66995,
    66964,66965,1,67003, 68736,68786,1,68800, 71840,71871,1,71872,
    93760,93791,1,93792, 125184,125217,1,125218>>

\* str.lower() of a character other than a capital sigma
CharLower(c) ==
    LET hits == {k \in 1..(Len(LowerTable) \div 4) :
                    /\ LowerTable[4 * k - 3] <= c
                    /\ c <= LowerTable[4 * k - 2]
                    /\ (c - LowerTable[4 * k - 3]) % LowerTable[4 * k - 1] = 0}
        k == CHOOSE h \in hits : TRUE
    IN  IF c = 304 THEN <<105, 775>>
        ELSE IF hits = {} THEN <<c>>
        ELSE <<LowerTable[4 * k] + (c - LowerTable[4 * k - 3])>>

-----------------------------------------------------------------------------
(* str methods *)

\* The capital sigma s[i] is final: a cased character before it and none
\* after it, case-ignorable characters skipped on both sides
FinalSigma(s, i) ==
    LET before == {j \in 1..(i - 1) : ~InRanges(s[j], CaseIgnorable)}
        after == {j \in (i + 1)..Len(s) : ~InRanges(s[j], CaseIgnorable)}
    IN  /\ before # {}
        /\ InRanges(s[CHOOSE j \in before : \A k \in before : j >= k], Cased)
        /\ \/ after = {}
           \/ ~InRanges(s[CHOOSE j \in after : \A k \in after : j <= k], Cased)

RECURSIVE LowerFrom(_, _)
LowerFrom(s, i) ==
    IF i > Len(s) THEN <<>>
    ELSE (IF s[i] = 931 THEN <<IF FinalSigma(s, i) THEN 962 ELSE 963>>
          ELSE CharLower(s[i]))
         \o LowerFrom(s, i + 1)

\* s.lower()
Lower(s) == LowerFrom(s, 1)

\* kw in text
Contains(text, kw) ==
    \E i \in 0..(Len(text) - Len(kw)) : SubSeq(text, i + 1, i + Len(kw)) = kw

\* s.strip()
Strip(s) ==
    LET keep == {i \in 1..Len(s) : ~InRanges(s[i], Whitespace)}
    IN  IF keep = {} THEN <<>>
        ELSE SubSeq(s, CHOOSE i \in keep : \A j \in keep : i <= j,
                       CHOOSE i \in keep : \A j \in keep : i >= j)

\* s.split(c)[0]
SplitFirst(s, c) ==
    LET at == {i \in 1..Len(s) : s[i] = c}
    IN  IF at = {} THEN s
        ELSE SubSeq(s, 1, (CHOOSE i \in at : \A j \in at : i <= j) - 1)

\* s.replace(c, '')
Remove(s, c) == SelectSeq(s, LAMBDA x : x # c)

\* sep.join(parts)
RECURSIVE Join(_, _)
Join(parts, sep) ==
    IF Len(parts) = 0 THEN <<>>
    ELSE IF Len(parts) = 1 THEN parts[1]
    ELSE parts[1] \o sep \o Join(Tail(parts), sep)

\* a < b on two str: lexicographic by code point
RECURSIVE StrLess(_, _)
StrLess(a, b) ==
    IF Len(b) = 0 THEN FALSE
    ELSE IF Len(a) = 0 THEN TRUE
    ELSE IF a[1] = b[1] THEN StrLess(Tail(a), Tail(b))
    ELSE a[1] < b[1]

-----------------------------------------------------------------------------
(* re: the two patterns of extract_key_info *)

\* \w
IsWordChar(c) == InRanges(c, WordChars)

WordAt(t, i) == i >= 1 /\ i <= Len(t) /\ IsWordChar(t[i])

\* \b between the characters p and p+1 of t
Boundary(t, p) == WordAt(t, p) # WordAt(t, p + 1)

\* Last index of the longest run of characters of S that starts at i
\* (i - 1 when t[i] is not in S).
RunEnd(t, i, S) ==
    CHOOSE j \in (i - 1)..Len(t) :
        /\ \A k \in i..j : t[k] \in S
        /\ j = Len(t) \/ t[j + 1] \notin S

\* [A-Za-z0-9._%+-]
LocalChars == Letters \cup DigitChars \cup {46, 95, 37, 43, 45}

\* [A-Za-z0-9.-]
DomainChars == Letters \cup DigitChars \cup {46, 45}

\* [A-Z|a-z]
TldChars == Letters \cup {124}

\* End of the match of email_pattern that starts at character i, 0 if none.
\* The local part is the whole run (it must be followed by "@", which is
\* not a local character); the domain is the longest prefix of its run
\* after which "." and two or more TldChars end at a word boundary, and
\* the top-level part is then the longest such.
EmailMatchEnd(t, i) ==
    LET a == RunEnd(t, i, LocalChars)
        b == RunEnd(t, a + 2, DomainChars)
        Ends(d) == {c \in (d + 3)..RunEnd(t, d + 2, TldChars) : Boundary(t, c)}
        Doms == {d \in (a + 2)..b :
                    d + 1 <= Len(t) /\ t[d + 1] = 46 /\ Ends(d) # {}}
        Max(S) == CHOOSE x \in S : \A y \in S : x >= y
    IN  IF /\ i <= Len(t)
           /\ Boundary(t, i - 1)
           /\ a >= i
           /\ a + 1 <= Len(t)
           /\ t[a + 1] = 64
           /\ Doms # {}
        THEN Max(Ends(Max(Doms)))
        ELSE 0

\* \d{n} at character j
DigitsAt(t, j, n) ==
    j + n - 1 <= Len(t) /\ \A k \in j..(j + n - 1) : InRanges(t[k], DecimalDigits)

\* [-.]?
SkipSep(t, j) == IF j <= Len(t) /\ t[j] \in {45, 46} THEN j + 1 ELSE j

\* End of the match of phone_pattern that starts at character i, 0 if none.
PhoneMatchEnd(t, i) ==
    LET j == SkipSep(t, i + 3)
        k == SkipSep(t, j + 3)
        e == k + 3
    IN  IF /\ Boundary(t, i - 1)
           /\ DigitsAt(t, i, 3)
           /\ DigitsAt(t, j, 3)
           /\ DigitsAt(t, k, 4)
           /\ Boundary(t, e)
        THEN e
        ELSE 0

\* re.findall(email_pattern, text), scanning from character pos
RECURSIVE FindEmails(_, _)
FindEmails(t, pos) ==
    IF pos > Len(t) THEN <<>>
    ELSE LET e == EmailMatchEnd(t, pos)
         IN  IF e > 0 THEN <<SubSeq(t, pos, e)>> \o FindEmails(t, e + 1)
             ELSE FindEmails(t, pos + 1)

\* re.findall(phone_pattern, text), scanning from character pos
RECURSIVE FindPhones(_, _)
FindPhones(t, pos) ==
    IF pos > Len(t) THEN <<>>
    ELSE LET e == PhoneMatchEnd(t, pos)
         IN  IF e > 0 THEN <<SubSeq(t, pos, e)>> \o FindPhones(t, e + 1)
             ELSE FindPhones(t, pos + 1)

-----------------------------------------------------------------------------
(* Config and the literals of the code *)

\* support, query, request, help, issue, problem
SUPPORT_KEYWORDS == <<
    <<115, 117, 112, 112, 111, 114, 116>>,
    <<113, 117, 101, 114, 121>>,
    <<114, 101, 113, 117, 101, 115, 116>>,
    <<104, 101, 108, 112>>,
    <<105, 115, 115, 117, 101>>,
    <<112, 114, 111, 98, 108, 101, 109>>>>

\* urgent, critical, immediate, emergency, asap, cannot access, down,
\* blocked, failed, error
URGENT_KEYWORDS == <<
    <<117, 114, 103, 101, 110, 116>>,
    <<99, 114, 105, 116, 105, 99, 97, 108>>,
    <<105, 109, 109, 101, 100, 105, 97, 116, 101>>,
    <<101, 109, 101, 114, 103, 101, 110, 99, 121>>,
    <<97, 115, 97, 112>>,
    <<99, 97, 110, 110, 111, 116, 32, 97, 99, 99, 101, 115, 115>>,
    <<100, 111, 119, 110>>,
    <<98, 108, 111, 99, 107, 101, 100>>,
    <<102, 97, 105, 108, 101, 100>>,
    <<101, 114, 114, 111, 114>>>>

\* good, great, excellent, happy, satisfied, love, amazing
positive_words == <<
    <<103, 111, 111, 100>>,
    <<103, 114, 101, 97, 116>>,
    <<101, 120, 99, 101, 108, 108, 101, 110, 116>>,
    <<104, 97, 112, 112, 121>>,
    <<115, 97, 116, 105, 115, 102, 105, 101, 100>>,
    <<108, 111, 118, 101>>,
    <<97, 109, 97, 122, 105, 110, 103>>>>

\* bad, terrible, frustrated, angry, disappointed, problem, issue, cannot,
\* unable
negative_words == <<
    <<98, 97, 100>>,
    <<116, 101, 114, 114, 105, 98, 108, 101>>,
    <<102, 114, 117, 115, 116, 114, 97, 116, 101, 100>>,
    <<97, 110, 103, 114, 121>>,
    <<100, 105, 115, 97, 112, 112, 111, 105, 110, 116, 101, 100>>,
    <<112, 114, 111, 98, 108, 101, 109>>,
    <<105, 115, 115, 117, 101>>,
    <<99, 97, 110, 110, 111, 116>>,
    <<117, 110, 97, 98, 108, 101>>>>

\* 'positive'
Positive == <<112, 111, 115, 105, 116, 105, 118, 101>>

\* 'negative'
Negative == <<110, 101, 103, 97, 116, 105, 118, 101>>

\* 'neutral'
Neutral == <<110, 101, 117, 116, 114, 97, 108>>

\* 'billing'
KwBilling == <<98, 105, 108, 108, 105, 110, 103>>

\* 'payment'
KwPayment == <<112, 97, 121, 109, 101, 110, 116>>

\* 'login'
KwLogin == <<108, 111, 103, 105, 110>>

\* 'account'
KwAccount == <<97, 99, 99, 111, 117, 110, 116>>

\* 'integration'
KwIntegration == <<105, 110, 116, 101, 103, 114, 97, 116, 105, 111, 110>>

\* 'api'
KwApi == <<97, 112, 105>>

\* 'refund'
KwRefund == <<114, 101, 102, 117, 110, 100>>

\* 'pricing'
KwPricing == <<112, 114, 105, 99, 105, 110, 103>>

\* 'Request Type: Billing Issue'
BillingIssue == <<82, 101, 113, 117, 101, 115, 116, 32, 84, 121, 112, 101, 58, 32, 66, 105, 108,
    108, 105, 110, 103, 32, 73, 115, 115, 117, 101>>

\* 'Request Type: Account Access'
AccountAccess == <<82, 101, 113, 117, 101, 115, 116, 32, 84, 121, 112, 101, 58, 32, 65, 99, 99,
    111, 117, 110, 116, 32, 65, 99, 99, 101, 115, 115>>

\* 'Request Type: Technical Integration'
TechnicalIntegration == <<82, 101, 113, 117, 101, 115, 116, 32, 84, 121, 112, 101, 58, 32, 84,
    101, 99, 104, 110, 105, 99, 97, 108, 32, 73, 110, 116, 101, 103, 114, 97, 116, 105, 111,
    110>>

\* 'Request Type: Refund Request'
RefundRequest == <<82, 101, 113, 117, 101, 115, 116, 32, 84, 121, 112, 101, 58, 32, 82, 101,
    102, 117, 110, 100, 32, 82, 101, 113, 117, 101, 115, 116>>

\* 'Request Type: Pricing Inquiry'
PricingInquiry == <<82, 101, 113, 117, 101, 115, 116, 32, 84, 121, 112, 101, 58, 32, 80, 114,
    105, 99, 105, 110, 103, 32, 73, 110, 113, 117, 105, 114, 121>>

\* 'Request Type: General Support'
GeneralSupport == <<82, 101, 113, 117, 101, 115, 116, 32, 84, 121, 112, 101, 58, 32, 71, 101,
    110, 101, 114, 97, 108, 32, 83, 117, 112, 112, 111, 114, 116>>

\* 'Contact: '
ContactPrefix == <<67, 111, 110, 116, 97, 99, 116, 58, 32>>

\* 'Phone: '
PhonePrefix == <<80, 104, 111, 110, 101, 58, 32>>

\* ', '
CommaSpace == <<44, 32>>

\* 'Request Type:'
RequestTypePrefix == <<82, 101, 113, 117, 101, 115, 116, 32, 84, 121, 112, 101, 58>>

\* 'CS'
CasePrefix == <<67, 83>>

-----------------------------------------------------------------------------
(* EmailProcessor: the pure steps of triage *)

\* any(keyword in text for keyword in keywords)
AnyIn(keywords, text) == \E i \in DOMAIN keywords : Contains(text, keywords[i])

\* subject + " " + body
TextOf(subject, body) == subject \o <<32>> \o body

is_support_email(subject, body) == AnyIn(SUPPORT_KEYWORDS, Lower(TextOf(subject, body)))

\* sum(1 for word in words if word in text_lower)
RECURSIVE CountIn(_, _)
CountIn(words, text_lower) ==
    IF Len(words) = 0 THEN 0
    ELSE (IF Contains(text_lower, Head(words)) THEN 1 ELSE 0)
         + CountIn(Tail(words), text_lower)

\* KeywordSentiment with a tie going to negative (>= for >)
KeywordSentimentTieNegative(text) ==
    LET text_lower == Lower(text)
        positive_count == CountIn(positive_words, text_lower)
        negative_count == CountIn(negative_words, text_lower)
    IN  IF negative_count >= positive_count THEN Negative
        ELSE IF positive_count > negative_count THEN Positive
        ELSE Neutral

\* The except branch of analyze_sentiment
KeywordSentiment(text) ==
    LET text_lower == Lower(text)
        positive_count == CountIn(positive_words, text_lower)
        negative_count == CountIn(negative_words, text_lower)
    IN  IF negative_count > positive_count THEN Negative
        ELSE IF positive_count > negative_count THEN Positive
        ELSE Neutral

\* What a call of openai.ChatCompletion.create can come to, besides the
\* message content it returns: the call raises, or the content is None
\* (and .strip() raises AttributeError).
Raises == <<-2>>

Failed(reply) == reply = Raises \/ reply = None

\* analyze_sentiment(text), the service answering reply
analyze_sentiment(text, reply) ==
    IF Failed(reply) THEN KeywordSentiment(text)
    ELSE Lower(Strip(reply))

determine_priority(subject, body) ==
    IF AnyIn(URGENT_KEYWORDS, Lower(TextOf(subject, body))) THEN "urgent" ELSE "normal"

\* RequestType with the account test ahead of the billing test
RequestTypeAccountFirst(text_lower) ==
    IF Contains(text_lower, KwLogin) \/ Contains(text_lower, KwAccount) THEN AccountAccess
    ELSE IF Contains(text_lower, KwBilling) \/ Contains(text_lower, KwPayment) THEN BillingIssue
    ELSE IF Contains(text_lower, KwIntegration) \/ Contains(text_lower, KwApi) THEN TechnicalIntegration
    ELSE IF Contains(text_lower, KwRefund) THEN RefundRequest
    ELSE IF Contains(text_lower, KwPricing) THEN PricingInquiry
    ELSE GeneralSupport

\* The if/elif chain of extract_key_info
RequestType(text_lower) ==
    IF Contains(text_lower, KwBilling) \/ Contains(text_lower, KwPayment) THEN BillingIssue
    ELSE IF Contains(text_lower, KwLogin) \/ Contains(text_lower, KwAccount) THEN AccountAccess
    ELSE IF Contains(text_lower, KwIntegration) \/ Contains(text_lower, KwApi) THEN TechnicalIntegration
    ELSE IF Contains(text_lower, KwRefund) THEN RefundRequest
    ELSE IF Contains(text_lower, KwPricing) THEN PricingInquiry
    ELSE GeneralSupport

extract_key_info(email_data) ==
    LET text == TextOf(email_data.subject, email_data.body)
        emails_found == FindEmails(text, 1)
        phones == FindPhones(text, 1)
        info == (IF Len(emails_found) > 0
                 THEN <<ContactPrefix \o Join(emails_found, CommaSpace)>> ELSE <<>>)
                \o (IF Len(phones) > 0
                    THEN <<PhonePrefix \o Join(phones, CommaSpace)>> ELSE <<>>)
                \o <<RequestType(Lower(text))>>
    IN  IF Len(info) > 0 THEN info ELSE <<GeneralSupport>>

\* A raised exception, as the value of the call that raised it
Raised(exception) == [kind |-> "raised", exception |-> exception]

\* generate_fallback_response: the two templates with the values that fill
\* them; timestamp is datetime.now().strftime('%Y%m%d%H%M%S').
generate_fallback_response(email_data, sentiment, priority, timestamp) ==
    IF email_data.sender = None THEN Raised("AttributeError")
    ELSE LET sender_name ==
                 Remove(Remove(SplitFirst(email_data.sender, 64), 60), 62)
             case_number == CasePrefix \o timestamp
         IN  IF priority = "urgent" /\ sentiment = Negative
             THEN [kind |-> "fallback", template |-> "escalation",
                   sender_name |-> sender_name, urgent_clause |-> FALSE,
                   timeline |-> "2 hours", case_number |-> case_number]
             ELSE [kind |-> "fallback", template |-> "acknowledgment",
                   sender_name |-> sender_name,
                   urgent_clause |-> (priority = "urgent"),
                   timeline |-> IF priority = "urgent" THEN "2 hours" ELSE "24 hours",
                   case_number |-> case_number]

\* generate_ai_response, the service answering reply
generate_ai_response(email_data, sentiment, priority, reply, timestamp) ==
    IF Failed(reply)
    THEN generate_fallback_response(email_data, sentiment, priority, timestamp)
    ELSE [kind |-> "ai", text |-> Strip(reply)]

\* One hexadecimal digit, lowercase
HexDigit(n) == IF n < 10 THEN 48 + n ELSE 97 + (n - 10)

\* \uXXXX of a 16-bit value
JsonEscape(n) ==
    <<92, 117>> \o <<HexDigit(n \div 4096), HexDigit((n \div 256) % 16),
               HexDigit((n \div 16) % 16), HexDigit(n % 16)>>

\* json.dumps of one character of a str (ensure_ascii)
JsonChar(c) ==
    IF c = 34 THEN <<92, 34>>
    ELSE IF c = 92 THEN <<92, 92>>
    ELSE IF c = 10 THEN <<92, 110>>
    ELSE IF c = 13 THEN <<92, 114>>
    ELSE IF c = 9 THEN <<92, 116>>
    ELSE IF c = 8 THEN <<92, 98>>
    ELSE IF c = 12 THEN <<92, 102>>
    ELSE IF c >= 32 /\ c <= 126 THEN <<c>>
    ELSE IF c < 65536 THEN JsonEscape(c)
    ELSE JsonEscape(55296 + ((c - 65536) \div 1024))
         \o JsonEscape(56320 + ((c - 65536) % 1024))

RECURSIVE JsonString(_)
JsonString(s) == IF Len(s) = 0 THEN <<>> ELSE JsonChar(Head(s)) \o JsonString(Tail(s))

\* json.dumps(extracted_info), a list of str
JsonDumps(info) ==
    <<91>>
    \o Join([i \in 1..Len(info) |-> <<34>> \o JsonString(info[i]) \o <<34>>],
            CommaSpace)
    \o <<93>>

-----------------------------------------------------------------------------
(* process_emails: triage of one message, the store, the ordering *)

\* The body of the loop of process_emails up to the dict it builds.  The
\* value of ai_response is Raised(..) when generate_ai_response raised.
Triage(email_data, sentiment_reply, draft_reply, timestamp) ==
    LET sentiment == analyze_sentiment(TextOf(email_data.subject, email_data.body),
                                       sentiment_reply)
        priority == determine_priority(email_data.subject, email_data.body)
        extracted_info == extract_key_info(email_data)
        ai_response == generate_ai_response(email_data, sentiment, priority,
                                            draft_reply, timestamp)
    IN  [sender |-> email_data.sender,
         subject |-> email_data.subject,
         body |-> email_data.body,
         sent_date |-> email_data.sent_date,
         sentiment |-> sentiment,
         priority |-> priority,
         extracted_info |-> extracted_info,
         ai_response |-> ai_response]

\* save_email that leaves the sentiment out of the INSERT
save_email_no_sentiment(table, email_data) ==
    Append(table, [id |-> Len(table) + 1,
                   sender |-> email_data.sender,
                   subject |-> email_data.subject,
                   body |-> email_data.body,
                   sent_date |-> email_data.sent_date,
                   sentiment |-> None,
                   priority |-> email_data.priority,
                   extracted_info |-> JsonDumps(email_data.extracted_info),
                   ai_response |-> email_data.ai_response,
                   status |-> "pending"])

\* save_email: the INSERT; id is AUTOINCREMENT, status takes its DEFAULT.
\* (created_at is not kept: see Analytics.)
save_email(table, email_data) ==
    Append(table, [id |-> Len(table) + 1,
                   sender |-> email_data.sender,
                   subject |-> email_data.subject,
                   body |-> email_data.body,
                   sent_date |-> email_data.sent_date,
                   sentiment |-> email_data.sentiment,
                   priority |-> email_data.priority,
                   extracted_info |-> JsonDumps(email_data.extracted_info),
                   ai_response |-> email_data.ai_response,
                   status |-> "pending"])

\* The key of the sort: (x['priority'] != 'urgent', x['sent_date'])
SortKey(x) == <<x.priority # "urgent", x.sent_date>>

\* k1 < k2 raises TypeError: the first items are equal and the second are
\* None and a str
KeyLessRaises(k1, k2) ==
    k1[1] = k2[1] /\ k1[2] # k2[2] /\ (k1[2] = None \/ k2[2] = None)

\* k1 < k2 on two keys that can be compared (False < True)
KeyLess(k1, k2) ==
    IF k1[1] # k2[1] THEN k2[1]
    ELSE k1[2] # k2[2] /\ StrLess(k1[2], k2[2])

\* x put into the sorted list s, after every element that is not greater
RECURSIVE InsertSorted(_, _)
InsertSorted(s, x) ==
    IF Len(s) = 0 THEN <<x>>
    ELSE IF KeyLess(SortKey(x), SortKey(Head(s))) THEN <<x>> \o s
    ELSE <<Head(s)>> \o InsertSorted(Tail(s), x)

RECURSIVE SortInto(_, _)
SortInto(done, rest) ==
    IF Len(rest) = 0 THEN done
    ELSE SortInto(InsertSorted(done, Head(rest)), Tail(rest))

\* sorted with the key x['priority'] != 'urgent' alone
sorted_by_priority(processed) ==
    SelectSeq(processed, LAMBDA x : x.priority = "urgent")
    \o SelectSeq(processed, LAMBDA x : x.priority # "urgent")

\* sorted(processed_emails, key=...): list.sort is stable
sorted_emails(processed) == SortInto(<<>>, processed)

\* sorted raises TypeError as soon as two keys that cannot be compared meet,
\* which they do whenever one tier holds both a None and a str date
SortRaises(processed) ==
    \E i, j \in DOMAIN processed :
        KeyLessRaises(SortKey(processed[i]), SortKey(processed[j]))

\* len([e for e in rows if e[field] == value])
CountWhere(rows, field, value) ==
    Cardinality({i \in DOMAIN rows : rows[i][field] = value})

\* The stats of the fetch-emails response
Stats(processed) ==
    [total |-> Len(processed),
     urgent |-> CountWhere(processed, "priority", "urgent"),
     normal |-> CountWhere(processed, "priority", "normal"),
     positive |-> CountWhere(processed, "sentiment", Positive),
     negative |-> CountWhere(processed, "sentiment", Negative),
     neutral |-> CountWhere(processed, "sentiment", Neutral)]

\* sender = ? in SQL: NULL is equal to nothing
SqlEq(a, b) == a # None /\ b # None /\ a = b

\* The UPDATE with WHERE sender = ? alone
mark_sent_by_sender(table, recipient, subject) ==
    [i \in DOMAIN table |->
        IF SqlEq(table[i].sender, recipient)
        THEN [table[i] EXCEPT !.status = "sent"]
        ELSE table[i]]

\* UPDATE emails SET status = 'sent' WHERE sender = ? AND subject = ?
mark_sent(table, recipient, subject) ==
    [i \in DOMAIN table |->
        IF SqlEq(table[i].sender, recipient) /\ SqlEq(table[i].subject, subject)
        THEN [table[i] EXCEPT !.status = "sent"]
        ELSE table[i]]

\* The distributions of get_analytics over the rows the SELECT returned
Distributions(results) ==
    [sentiment_distribution |->
        [positive |-> CountWhere(results, "sentiment", Positive),
         negative |-> CountWhere(results, "sentiment", Negative),
         neutral |-> CountWhere(results, "sentiment", Neutral)],
     priority_distribution |->
        [urgent |-> CountWhere(results, "priority", "urgent"),
         normal |-> CountWhere(results, "priority", "normal")],
     status_distribution |->
        [pending |-> CountWhere(results, "status", "pending"),
         sent |-> CountWhere(results, "status", "sent")]]

-----------------------------------------------------------------------------
(* Inputs *)

\* {'sender': 'a@x.io', 'subject': 'Help', 'body': 'system down',
\*  'sent_date': '2024-01-05'}
M1 == [sender |-> <<97, 64, 120, 46, 105, 111>>,
       subject |-> <<72, 101, 108, 112>>,
       body |-> <<115, 121, 115, 116, 101, 109, 32, 100, 111, 119, 110>>,
       sent_date |-> <<50, 48, 50, 52, 45, 48, 49, 45, 48, 53>>]

\* {'sender': 'a@x.io', 'subject': 'Billing issue', 'body': 'login bad',
\*  'sent_date': '2024-01-02'}
M2 == [sender |-> <<97, 64, 120, 46, 105, 111>>,
       subject |-> <<66, 105, 108, 108, 105, 110, 103, 32, 105, 115, 115, 117, 101>>,
       body |-> <<108, 111, 103, 105, 110, 32, 98, 97, 100>>,
       sent_date |-> <<50, 48, 50, 52, 45, 48, 49, 45, 48, 50>>]

\* {'sender': 'Bob <b@y.io>', 'subject': 'Help',
\*  'body': 'urgent: 555-123-4567, b@y.io', 'sent_date': '2024-01-01'}
M3 == [sender |-> <<66, 111, 98, 32, 60, 98, 64, 121, 46, 105, 111, 62>>,
       subject |-> <<72, 101, 108, 112>>,
       body |-> <<117, 114, 103, 101, 110, 116, 58, 32, 53, 53, 53, 45, 49, 50, 51, 45, 52, 53,
           54, 55, 44, 32, 98, 64, 121, 46, 105, 111>>,
       sent_date |-> <<50, 48, 50, 52, 45, 48, 49, 45, 48, 49>>]

\* {'sender': 'n@z.io', 'subject': 'Hi', 'body': 'lunch?',
\*  'sent_date': '2024-01-03'}
M4 == [sender |-> <<110, 64, 122, 46, 105, 111>>,
       subject |-> <<72, 105>>,
       body |-> <<108, 117, 110, 99, 104, 63>>,
       sent_date |-> <<50, 48, 50, 52, 45, 48, 49, 45, 48, 51>>]

\* No From header:
\* {'sender': None, 'subject': 'query', 'body': '', 'sent_date': '2024-01-02'}
M5 == [sender |-> None,
       subject |-> <<113, 117, 101, 114, 121>>,
       body |-> <<>>,
       sent_date |-> <<50, 48, 50, 52, 45, 48, 49, 45, 48, 50>>]

\* No Date header, a phone number in Arabic-Indic digits:
\* {'sender': 'c@w.io', 'subject': 'request',
\*  'body': 'pricing \u0665\u0665\u0665-\u0661\u0662\u0663-\u0664\u0665\u0666\u0667',
\*  'sent_date': None}
M6 == [sender |-> <<99, 64, 119, 46, 105, 111>>,
       subject |-> <<114, 101, 113, 117, 101, 115, 116>>,
       body |-> <<112, 114, 105, 99, 105, 110, 103, 32, 1637, 1637, 1637, 45, 1633, 1634, 1635,
           45, 1636, 1637, 1638, 1639>>,
       sent_date |-> None]

\* '\x0cNegative\n'
ReplyNegative == <<12, 78, 101, 103, 97, 116, 105, 118, 101, 10>>

\* 'Mixed'
ReplyMixed == <<77, 105, 120, 101, 100>>

\* ' We are on it.\n'
ReplyDraft == <<32, 87, 101, 32, 97, 114, 101, 32, 111, 110, 32, 105, 116, 46, 10>>

\* '20240105093000'
T1 == <<50, 48, 50, 52, 48, 49, 48, 53, 48, 57, 51, 48, 48, 48>>

\* '', 'Help', 'URGENT billing issue', 'Login problem', 'Query about API',
\* 'Pricing request', 'refund', 'Hello', 'I cannot',
\* '\u0130ssue with bloc\u212aed login' (capital I with dot, Kelvin sign)
Subjects == {
    <<>>,
    <<72, 101, 108, 112>>,
    <<85, 82, 71, 69, 78, 84, 32, 98, 105, 108, 108, 105, 110, 103, 32, 105, 115, 115, 117, 101>>,
    <<76, 111, 103, 105, 110, 32, 112, 114, 111, 98, 108, 101, 109>>,
    <<81, 117, 101, 114, 121, 32, 97, 98, 111, 117, 116, 32, 65, 80, 73>>,
    <<80, 114, 105, 99, 105, 110, 103, 32, 114, 101, 113, 117, 101, 115, 116>>,
    <<114, 101, 102, 117, 110, 100>>,
    <<72, 101, 108, 108, 111>>,
    <<73, 32, 99, 97, 110, 110, 111, 116>>,
    <<304, 115, 115, 117, 101, 32, 119, 105, 116, 104, 32, 98, 108, 111, 99, 8490, 101, 100, 32,
        108, 111, 103, 105, 110>>}

\* 'I love it, great and good.', 'bad bad bad but good and great',
\* 'terrible and bad, yet good', 'bad but good', 'nothing here',
\* 'Contact me at bob@x.io or 555-123-4567 about login',
\* 'mail a.b@c.de and z@y.co, call 5551234567', 'tissue paper',
\* 'access my account', 'system is DOWN', 'PayMent failed',
\* 'unhappy, unable', 'ren\u00e9.b@x.io wrote',
\* '\u00e9555-123-4567 or \u0665\u0665\u0665-\u0661\u0662\u0663-\u0664\u0665\u0666\u0667',
\* '\u039f\u0394\u039f\u03a3 is BAD'
Bodies == {
    <<73, 32, 108, 111, 118, 101, 32, 105, 116, 44, 32, 103, 114, 101, 97, 116, 32, 97, 110,
        100, 32, 103, 111, 111, 100, 46>>,
    <<98, 97, 100, 32, 98, 97, 100, 32, 98, 97, 100, 32, 98, 117, 116, 32, 103, 111, 111, 100,
        32, 97, 110, 100, 32, 103, 114, 101, 97, 116>>,
    <<116, 101, 114, 114, 105, 98, 108, 101, 32, 97, 110, 100, 32, 98, 97, 100, 44, 32, 121,
        101, 116, 32, 103, 111, 111, 100>>,
    <<98, 97, 100, 32, 98, 117, 116, 32, 103, 111, 111, 100>>,
    <<110, 111, 116, 104, 105, 110, 103, 32, 104, 101, 114, 101>>,
    <<67, 111, 110, 116, 97, 99, 116, 32, 109, 101, 32, 97, 116, 32, 98, 111, 98, 64, 120, 46,
        105, 111, 32, 111, 114, 32, 53, 53, 53, 45, 49, 50, 51, 45, 52, 53, 54, 55, 32, 97, 98,
        111, 117, 116, 32, 108, 111, 103, 105, 110>>,
    <<109, 97, 105, 108, 32, 97, 46, 98, 64, 99, 46, 100, 101, 32, 97, 110, 100, 32, 122, 64,
        121, 46, 99, 111, 44, 32, 99, 97, 108, 108, 32, 53, 53, 53, 49, 50, 51, 52, 53, 54,
        55>>,
    <<116, 105, 115, 115, 117, 101, 32, 112, 97, 112, 101, 114>>,
    <<97, 99, 99, 101, 115, 115, 32, 109, 121, 32, 97, 99, 99, 111, 117, 110, 116>>,
    <<115, 121, 115, 116, 101, 109, 32, 105, 115, 32, 68, 79, 87, 78>>,
    <<80, 97, 121, 77, 101, 110, 116, 32, 102, 97, 105, 108, 101, 100>>,
    <<117, 110, 104, 97, 112, 112, 121, 44, 32, 117, 110, 97, 98, 108, 101>>,
    <<114, 101, 110, 233, 46, 98, 64, 120, 46, 105, 111, 32, 119, 114, 111, 116, 101>>,
    <<233, 53, 53, 53, 45, 49, 50, 51, 45, 52, 53, 54, 55, 32, 111, 114, 32, 1637, 1637, 1637,
        45, 1633, 1634, 1635, 45, 1636, 1637, 1638, 1639>>,
    <<927, 916, 927, 931, 32, 105, 115, 32, 66, 65, 68>>}

\* The messages a mailbox can hold
Pool == {M1, M2, M3, M4, M5, M6}

\* The messages of the mailboxes under SpecOrder
OrderPool == {M1, M2, M3, M5, M6}

\* The messages of the mailboxes under SpecStore
StorePool == {M1, M2, M5}

\* The messages of the rows an earlier run of the server left in emails.db
EarlierPool == {M1}

\* Rows left by earlier runs
MaxEarlier == 1

\* Rows of the table and messages being processed, under SpecStore
MaxRows == 2

\* Rows of the table and messages being processed, under Spec
MaxBatch == 2

\* Rows of the table and messages being processed, under SpecOrder
MaxSorted == 3

\* Requests of fetch-emails being served at a time
MaxRequests == 2

Requests == 1..MaxRequests

\* Requests of send-response being served at a time
MaxSends == 1

SendRequests == 1..MaxSends

RECURSIVE SeqsUpTo(_, _)
SeqsUpTo(S, n) ==
    IF n = 0 THEN {<<>>}
    ELSE LET shorter == SeqsUpTo(S, n - 1)
         IN  shorter \cup {Append(s, x) : s \in {t \in shorter : Len(t) = n - 1}, x \in S}

\* The sequences of up to n different elements of S
DistinctSeqs(S, n) ==
    {s \in SeqsUpTo(S, n) : \A i, j \in DOMAIN s : i # j => s[i] # s[j]}

SentimentReplies == {Raises, ReplyNegative, ReplyMixed}

DraftReplies == {Raises, ReplyDraft}

Timestamps == {T1}

\* What the service answers under SpecStore: the classifier fails, the
\* draft is written
StoreSentimentReplies == {Raises}

StoreDraftReplies == {ReplyDraft}

\* What the service answers under SpecOrder: a label and a draft
OrderSentimentReplies == {ReplyNegative}

OrderDraftReplies == {ReplyDraft}

Recipients == {M1.sender, None}

SendSubjects == {M1.subject, M2.subject}

\* request.json of a send-response: the three keys, or 'response' missing
SendBodies ==
    {[recipient |-> to, subject |-> subject, response |-> ReplyDraft] :
        to \in Recipients, subject \in SendSubjects}
    \cup {[recipient |-> M1.sender, subject |-> M1.subject]}

\* The mailboxes a request of fetch-emails can find: different messages,
\* in the order of their ids
BatchMailboxes == DistinctSeqs(Pool, MaxBatch)

OrderMailboxes == DistinctSeqs(OrderPool, MaxSorted)

StoreMailboxes == DistinctSeqs(StorePool, MaxRows)

\* Messages for the pure steps: every subject with every body
TextPool == {[sender |-> M3.sender, subject |-> s, body |-> b, sent_date |-> M3.sent_date] :
                s \in Subjects, b \in Bodies}

\* is_support_email and Triage over the inputs, evaluated once
SupportOf == [m \in Pool |-> is_support_email(m.subject, m.body)]

TriageOf ==
    [m \in Pool, sentiment_reply \in SentimentReplies, draft_reply \in DraftReplies,
     timestamp \in Timestamps |->
        Triage(m, sentiment_reply, draft_reply, timestamp)]

\* The table after an earlier run saved the messages of box, those at the
\* positions of sent answered since
RECURSIVE SavedBy(_, _)
SavedBy(table, box) ==
    IF Len(box) = 0 THEN table
    ELSE SavedBy(save_email(table, TriageOf[Head(box), Raises, Raises, T1]), Tail(box))

\* What emails.db can hold when the server starts: init_database creates
\* the table only if it does not exist
InitialTables ==
    {[i \in DOMAIN SavedBy(<<>>, box) |->
         [SavedBy(<<>>, box)[i] EXCEPT !.status = IF i \in sent THEN "sent" ELSE "pending"]] :
        box \in DistinctSeqs(EarlierPool, MaxEarlier), sent \in SUBSET (1..MaxEarlier)}

-----------------------------------------------------------------------------
(* State.  app.run (line 474) serves every request in a thread of its own:
   a request has its locals, the emails table is shared.  A step is one
   access to the table, or the part of a handler between two of them.     *)

VARIABLES
    emails_table,       \* the rows of the emails table, in id order
    pc,                 \* per fetch-emails request: "idle", or where it is
    mailbox,            \* per request: the messages the IMAP search returned
    fetch,              \* per request: how processor.fetch_emails ended
    emails,             \* per request: the list fetch_emails returned
    processed_emails,   \* per request: the list process_emails built so far
    processed_email,    \* per request: the dict of the turn, not yet saved
    calls,              \* per request and message: what the service answered,
                        \* whether the INSERT was reached and raised, its row
    send_pc,            \* per send-response request: "idle", or "update"
                        \* once the mail is out and the UPDATE is to come
    data,               \* per send-response request: request.json
    success,            \* per send-response request: what
                        \* send_email_response returned
    last                \* the last step taken: the response sent and, for
                        \* fetch-emails, the locals of the request answered

vars == <<emails_table, pc, mailbox, fetch, emails, processed_emails, processed_email,
          calls, send_pc, data, success, last>>

fetch_vars == <<pc, mailbox, fetch, emails, processed_emails, processed_email, calls>>

send_vars == <<send_pc, data, success>>

Init ==
    /\ emails_table \in InitialTables
    /\ pc = [r \in Requests |-> "idle"]
    /\ mailbox = [r \in Requests |-> <<>>]
    /\ fetch = [r \in Requests |-> "none"]
    /\ emails = [r \in Requests |-> <<>>]
    /\ processed_emails = [r \in Requests |-> <<>>]
    /\ processed_email = [r \in Requests |-> None]
    /\ calls = [r \in Requests |-> <<>>]
    /\ send_pc = [s \in SendRequests |-> "idle"]
    /\ data = [s \in SendRequests |-> None]
    /\ success = [s \in SendRequests |-> FALSE]
    /\ last = [route |-> "none"]

\* A step of a handler that sends no response yet
InProgress(route) == [route |-> route, code |-> 0]

\* GET /api/fetch-emails, up to the return of processor.fetch_emails, in
\* the first thread that is free.  outcome: "connect_failed" (connect_email
\* returned None), "fetch_raised" (an exception inside the try, caught: []),
\* "ok".
FetchEmails(r, box, outcome) ==
    /\ pc[r] = "idle"
    /\ \A q \in Requests : q < r => pc[q] # "idle"
    /\ pc' = [pc EXCEPT ![r] = "process_emails"]
    /\ mailbox' = [mailbox EXCEPT ![r] = IF outcome = "connect_failed" THEN <<>> ELSE box]
    /\ fetch' = [fetch EXCEPT ![r] = outcome]
    /\ emails' = [emails EXCEPT ![r] = IF outcome = "ok"
                                       THEN SelectSeq(box, LAMBDA m : SupportOf[m])
                                       ELSE <<>>]
    /\ last' = InProgress("fetch-emails")
    /\ UNCHANGED <<emails_table, processed_emails, processed_email, calls, send_vars>>

\* The body of a 500 response of fetch-emails and of send-response
Failure(exception) == [success |-> FALSE, error |-> exception]

\* The handler of request r returns: the response, and the locals are gone
Answer(r, calls_r, code, response) ==
    /\ last' = [route |-> "fetch-emails", code |-> code, response |-> response,
                fetch |-> fetch[r], mailbox |-> mailbox[r], emails |-> emails[r],
                processed_emails |-> processed_emails[r], calls |-> calls_r]
    /\ pc' = [pc EXCEPT ![r] = "idle"]
    /\ mailbox' = [mailbox EXCEPT ![r] = <<>>]
    /\ fetch' = [fetch EXCEPT ![r] = "none"]
    /\ emails' = [emails EXCEPT ![r] = <<>>]
    /\ processed_emails' = [processed_emails EXCEPT ![r] = <<>>]
    /\ processed_email' = [processed_email EXCEPT ![r] = None]
    /\ calls' = [calls EXCEPT ![r] = <<>>]

\* One turn of the loop of process_emails up to the dict it builds: the two
\* calls of the service.  An exception leaves the loop and the function, and
\* the handler answers 500.
ProcessEmail(r, sentiment_reply, draft_reply, timestamp) ==
    /\ pc[r] = "process_emails"
    /\ Len(processed_emails[r]) < Len(emails[r])
    /\ LET email_data == emails[r][Len(processed_emails[r]) + 1]
           triaged == TriageOf[email_data, sentiment_reply, draft_reply, timestamp]
           call == [sentiment_reply |-> sentiment_reply, draft_reply |-> draft_reply,
                    insert |-> "none", row |-> <<>>]
       IN  IF triaged.ai_response.kind = "raised"
           THEN Answer(r, Append(calls[r], call), 500, Failure(triaged.ai_response.exception))
           ELSE /\ pc' = [pc EXCEPT ![r] = "save_email"]
                /\ processed_email' = [processed_email EXCEPT ![r] = triaged]
                /\ calls' = [calls EXCEPT ![r] = Append(@, call)]
                /\ last' = InProgress("fetch-emails")
                /\ UNCHANGED <<mailbox, fetch, emails, processed_emails>>
    /\ UNCHANGED <<emails_table, send_vars>>

\* The end of the turn: save_email, then the append.  insert_ok is FALSE
\* when sqlite3 raises, which nothing catches before the handler.
SaveEmail(r, insert_ok) ==
    /\ pc[r] = "save_email"
    /\ LET saved == save_email(emails_table, processed_email[r])
           n == Len(calls[r])
       IN  IF ~insert_ok
           THEN /\ Answer(r, [calls[r] EXCEPT ![n].insert = "raised"], 500,
                          Failure("sqlite3.Error"))
                /\ UNCHANGED emails_table
           ELSE /\ emails_table' = saved
                /\ calls' = [calls EXCEPT ![r][n].insert = "ok",
                                          ![r][n].row = saved[Len(saved)]]
                /\ processed_emails' = [processed_emails EXCEPT
                                           ![r] = Append(@, processed_email[r])]
                /\ processed_email' = [processed_email EXCEPT ![r] = None]
                /\ pc' = [pc EXCEPT ![r] = "process_emails"]
                /\ last' = InProgress("fetch-emails")
                /\ UNCHANGED <<mailbox, fetch, emails>>
    /\ UNCHANGED send_vars

\* The end of the loop: the sort, the stats and the response
ProcessReturn(r) ==
    /\ pc[r] = "process_emails"
    /\ Len(processed_emails[r]) = Len(emails[r])
    /\ IF SortRaises(processed_emails[r])
       THEN Answer(r, calls[r], 500, Failure("TypeError"))
       ELSE Answer(r, calls[r], 200,
                   [success |-> TRUE,
                    emails |-> sorted_emails(processed_emails[r]),
                    stats |-> Stats(processed_emails[r])])
    /\ UNCHANGED <<emails_table, send_vars>>

\* What send-response answers, with the locals of the request
SendAnswered(body, sent, code, response) ==
    [route |-> "send-response", code |-> code, response |-> response,
     data |-> body, mail_sent |-> sent]

\* send_response that goes on to the UPDATE whatever send_email_response
\* returned
SendResponseUnconditional(s, body, mail_sent) ==
    /\ send_pc[s] = "idle"
    /\ \A q \in SendRequests : q < s => send_pc[q] # "idle"
    /\ IF DOMAIN body # {"recipient", "subject", "response"}
       THEN /\ last' = SendAnswered(body, FALSE, 500, Failure("KeyError"))
            /\ UNCHANGED send_vars
       ELSE /\ send_pc' = [send_pc EXCEPT ![s] = "update"]
            /\ data' = [data EXCEPT ![s] = body]
            /\ success' = [success EXCEPT ![s] = mail_sent /\ body.recipient # None]
            /\ last' = InProgress("send-response")
    /\ UNCHANGED <<emails_table, fetch_vars>>

\* POST /api/send-response up to the test of success, in the first thread
\* that is free.  body is request.json: a key that is missing raises
\* KeyError.  mail_sent is FALSE when the SMTP server made
\* send_email_response return False, which it also does without a recipient
\* (sendmail raises on None, inside the try).
SendResponse(s, body, mail_sent) ==
    /\ send_pc[s] = "idle"
    /\ \A q \in SendRequests : q < s => send_pc[q] # "idle"
    /\ IF DOMAIN body # {"recipient", "subject", "response"}
       THEN /\ last' = SendAnswered(body, FALSE, 500, Failure("KeyError"))
            /\ UNCHANGED send_vars
       ELSE IF mail_sent /\ body.recipient # None
       THEN /\ send_pc' = [send_pc EXCEPT ![s] = "update"]
            /\ data' = [data EXCEPT ![s] = body]
            /\ success' = [success EXCEPT ![s] = TRUE]
            /\ last' = InProgress("send-response")
       ELSE /\ last' = SendAnswered(body, FALSE, 200, [success |-> FALSE])
            /\ UNCHANGED send_vars
    /\ UNCHANGED <<emails_table, fetch_vars>>

\* The rest of send_response: the UPDATE and the response.  update_ok is
\* FALSE when sqlite3 raises.
UpdateStatus(s, update_ok) ==
    /\ send_pc[s] = "update"
    /\ IF update_ok
       THEN /\ emails_table' = mark_sent(emails_table, data[s].recipient, data[s].subject)
            /\ last' = SendAnswered(data[s], success[s], 200, [success |-> success[s]])
       ELSE /\ last' = SendAnswered(data[s], success[s], 500, Failure("sqlite3.Error"))
            /\ UNCHANGED emails_table
    /\ send_pc' = [send_pc EXCEPT ![s] = "idle"]
    /\ data' = [data EXCEPT ![s] = None]
    /\ success' = [success EXCEPT ![s] = FALSE]
    /\ UNCHANGED fetch_vars

\* GET /api/analytics.  The rows of the last 7 days are the newest rows of
\* the table: all but the oldest `older` ones.  query_ok is FALSE when the
\* SELECT raised.
Analytics(older, query_ok) ==
    /\ older \in 0..Len(emails_table)
    /\ last' = IF query_ok
               THEN [route |-> "analytics", code |-> 200,
                     response |-> Distributions(SubSeq(emails_table, older + 1,
                                                       Len(emails_table)))]
               ELSE [route |-> "analytics", code |-> 500,
                     response |-> [error |-> "sqlite3.Error"]]
    /\ UNCHANGED <<emails_table, fetch_vars, send_vars>>

\* How processor.fetch_emails can fail: both ways it returns [], whatever
\* the mailbox holds
FetchFailures == {"connect_failed", "fetch_raised"}

\* The messages the requests 1..n still have to save
RECURSIVE InFlight(_)
InFlight(n) ==
    IF n = 0 THEN 0
    ELSE (Len(emails[n]) - Len(processed_emails[n])) + InFlight(n - 1)

\* The rows of the table and the rows the requests being served can add
Load == Len(emails_table) + InFlight(MaxRequests)

\* The triage pipeline with every behaviour of the service and of the
\* store: requests of fetch-emails, up to MaxBatch rows
Next ==
    \/ \E r \in Requests, box \in BatchMailboxes :
          Load + Len(box) <= MaxBatch /\ FetchEmails(r, box, "ok")
    \/ \E r \in Requests, outcome \in FetchFailures : FetchEmails(r, <<>>, outcome)
    \/ \E r \in Requests, sentiment_reply \in SentimentReplies,
          draft_reply \in DraftReplies, timestamp \in Timestamps :
          ProcessEmail(r, sentiment_reply, draft_reply, timestamp)
    \/ \E r \in Requests, insert_ok \in BOOLEAN : SaveEmail(r, insert_ok)
    \/ \E r \in Requests : ProcessReturn(r)

Spec == Init /\ [][Next]_vars

\* The triage pipeline with the service and the store working: requests of
\* fetch-emails, up to MaxSorted rows
NextOrder ==
    \/ \E r \in Requests, box \in OrderMailboxes :
          Load + Len(box) <= MaxSorted /\ FetchEmails(r, box, "ok")
    \/ \E r \in Requests, outcome \in FetchFailures : FetchEmails(r, <<>>, outcome)
    \/ \E r \in Requests, sentiment_reply \in OrderSentimentReplies,
          draft_reply \in OrderDraftReplies, timestamp \in Timestamps :
          ProcessEmail(r, sentiment_reply, draft_reply, timestamp)
    \/ \E r \in Requests : SaveEmail(r, TRUE)
    \/ \E r \in Requests : ProcessReturn(r)

SpecOrder == Init /\ [][NextOrder]_vars

\* The three handlers, up to MaxRows rows
NextStore ==
    \/ \E r \in Requests, box \in StoreMailboxes :
          Load + Len(box) <= MaxRows /\ FetchEmails(r, box, "ok")
    \/ \E r \in Requests, outcome \in FetchFailures : FetchEmails(r, <<>>, outcome)
    \/ \E r \in Requests, sentiment_reply \in StoreSentimentReplies,
          draft_reply \in StoreDraftReplies, timestamp \in Timestamps :
          ProcessEmail(r, sentiment_reply, draft_reply, timestamp)
    \/ \E r \in Requests, insert_ok \in BOOLEAN : SaveEmail(r, insert_ok)
    \/ \E r \in Requests : ProcessReturn(r)
    \/ \E s \in SendRequests, body \in SendBodies, mail_sent \in BOOLEAN :
          SendResponse(s, body, mail_sent)
    \/ \E s \in SendRequests, update_ok \in BOOLEAN : UpdateStatus(s, update_ok)
    \/ \E older \in 0..MaxRows, query_ok \in BOOLEAN : Analytics(older, query_ok)

SpecStore == Init /\ [][NextStore]_vars

-----------------------------------------------------------------------------
(* The pure steps of triage, each applied to one message of TextPool *)

InitText ==
    /\ emails_table = <<>>
    /\ pc = [r \in Requests |-> "text"]
    /\ mailbox = [r \in Requests |-> <<>>]
    /\ fetch = [r \in Requests |-> "none"]
    /\ emails \in {[r \in Requests |-> <<m>>] : m \in TextPool}
    /\ processed_emails = [r \in Requests |-> <<>>]
    /\ processed_email = [r \in Requests |-> None]
    /\ calls = [r \in Requests |-> <<>>]
    /\ send_pc = [s \in SendRequests |-> "idle"]
    /\ data = [s \in SendRequests |-> None]
    /\ success = [s \in SendRequests |-> FALSE]
    /\ last = [route |-> "none"]

Applied(name, value) ==
    /\ pc[1] = "text"
    /\ last' = [route |-> name, value |-> value]
    /\ UNCHANGED <<emails_table, fetch_vars, send_vars>>

IsSupportEmail ==
    Applied("is_support_email", is_support_email(emails[1][1].subject, emails[1][1].body))

DeterminePriority ==
    Applied("determine_priority", determine_priority(emails[1][1].subject, emails[1][1].body))

ExtractKeyInfo == Applied("extract_key_info", extract_key_info(emails[1][1]))

\* analyze_sentiment with the service failing
AnalyzeSentimentFallback(reply) ==
    /\ Failed(reply)
    /\ Applied("analyze_sentiment",
               analyze_sentiment(TextOf(emails[1][1].subject, emails[1][1].body), reply))

NextText ==
    \/ IsSupportEmail
    \/ DeterminePriority
    \/ ExtractKeyInfo
    \/ \E reply \in {Raises, None} : AnalyzeSentimentFallback(reply)

SpecText == InitText /\ [][NextText]_vars

-----------------------------------------------------------------------------
(* Properties *)

Labels == {Positive, Negative, Neutral}

HasPrefix(s, prefix) == Len(s) >= Len(prefix) /\ SubSeq(s, 1, Len(prefix)) = prefix

\* The bijections of 1..n
Bijections(n) == {p \in [1..n -> 1..n] : \A i, j \in 1..n : p[i] = p[j] => i = j}

SameMessage(e, m) ==
    /\ e.sender = m.sender
    /\ e.subject = m.subject
    /\ e.body = m.body
    /\ e.sent_date = m.sent_date

\* Everything of a row but its status
Frozen(row) == [row EXCEPT !.status = "-"]

\* A request of fetch-emails has just been answered
FetchAnswered == last.route = "fetch-emails" /\ last.code # 0

FetchReturned == FetchAnswered /\ last.code = 200

\* C1: a failing INSERT for one message does not abort the batch: process
\* still returns normally and every message of the batch has been
\* classified, extracted, drafted and attempted for persistence.
C1_StoreFailureIsolated ==
    (FetchAnswered /\ \E i \in DOMAIN last.calls : last.calls[i].insert = "raised")
        => /\ last.code = 200
           /\ Len(last.calls) = Len(last.emails)
           /\ \A i \in DOMAIN last.calls : last.calls[i].insert # "none"

\* C3: whatever the classifier does, the sentiment attached to a result and
\* the sentiment persisted are one of positive, negative, neutral.
C3_SentimentIsLabel ==
    /\ \A r \in Requests : \A i \in DOMAIN processed_emails[r] :
          processed_emails[r][i].sentiment \in Labels
    /\ \A i \in DOMAIN emails_table : emails_table[i].sentiment \in Labels

ServiceDown ==
    \A i \in DOMAIN last.calls :
        Failed(last.calls[i].sentiment_reply) /\ Failed(last.calls[i].draft_reply)

\* C4: when the service fails on every call, process returns one fully
\* populated result per support-relevant message (here: even when every
\* INSERT succeeds), and nothing propagates to its caller.
C4_ServiceDownStillTriaged ==
    (FetchAnswered /\ ServiceDown /\ \A i \in DOMAIN last.calls : last.calls[i].insert # "raised")
        => /\ last.code = 200
           /\ Len(last.response.emails) = Len(last.emails)
           /\ \A k \in DOMAIN last.response.emails :
                 /\ last.response.emails[k].sentiment \in Labels
                 /\ last.response.emails[k].priority \in {"urgent", "normal"}
                 /\ Len(last.response.emails[k].extracted_info) > 0
                 /\ last.response.emails[k].ai_response.kind = "fallback"

\* The order the claim states: urgent before normal and, within a tier,
\* ascending sent_date as raw strings
InOrder(a, b) ==
    \/ a.priority = "urgent" /\ b.priority # "urgent"
    \/ /\ (a.priority = "urgent") = (b.priority = "urgent")
       /\ a.sent_date = b.sent_date \/ StrLess(a.sent_date, b.sent_date)

Tied(a, b) ==
    (a.priority = "urgent") = (b.priority = "urgent") /\ a.sent_date = b.sent_date

\* C5: the returned sequence is a permutation of the triaged inputs, urgent
\* before normal, ascending sent_date (raw strings) within a tier, and the
\* fetch order kept between results equal in both.
C5_StableOrder ==
    FetchReturned =>
        \E p \in Bijections(Len(last.processed_emails)) :
            /\ Len(last.response.emails) = Len(last.processed_emails)
            /\ \A k \in DOMAIN last.response.emails :
                  last.response.emails[k] = last.processed_emails[p[k]]
            /\ \A k, l \in DOMAIN last.response.emails :
                  k < l => /\ InOrder(last.response.emails[k], last.response.emails[l])
                           /\ Tied(last.response.emails[k], last.response.emails[l])
                                 => p[k] < p[l]

\* The example of the specification: normal/01-02, urgent/01-05,
\* urgent/01-01 comes back as urgent/01-01, urgent/01-05, normal/01-02
C5_Witness ==
    /\ FetchReturned
    /\ Len(last.processed_emails) >= 3
    /\ SameMessage(last.processed_emails[1], M2)
    /\ SameMessage(last.processed_emails[2], M1)
    /\ SameMessage(last.processed_emails[3], M3)
    /\ SameMessage(last.response.emails[1], M3)
    /\ SameMessage(last.response.emails[2], M1)
    /\ SameMessage(last.response.emails[3], M2)

\* The lowercased subject+body holds a support keyword
SupportRelevant(m) ==
    \E k \in DOMAIN SUPPORT_KEYWORDS :
        Contains(Lower(TextOf(m.subject, m.body)), SUPPORT_KEYWORDS[k])

\* C6: a message without a support keyword is dropped (not returned, no
\* INSERT made for it), and every message with one is triaged.
C6_FilterExact ==
    (FetchAnswered /\ last.fetch = "ok") =>
        /\ \A i \in DOMAIN last.mailbox :
              ~SupportRelevant(last.mailbox[i]) =>
                  /\ \A k \in DOMAIN last.processed_emails :
                        ~SameMessage(last.processed_emails[k], last.mailbox[i])
                  /\ \A k \in DOMAIN emails_table :
                        ~SameMessage(emails_table[k], last.mailbox[i])
        /\ Len(last.calls)
              = Cardinality({i \in DOMAIN last.mailbox : SupportRelevant(last.mailbox[i])})

\* A request of send-response has just been answered
SendAnswer == last.route = "send-response" /\ last.code # 0

\* C2: a row has status 'sent' only once a send-response with recipient =
\* its sender and subject = its subject had a successful mail send, and a
\* send-response whose mail send fails changes no status.
C2_SentOnlyAfterSuccessfulSend ==
    [][/\ \A i \in DOMAIN emails_table' :
             (/\ emails_table'[i].status = "sent"
              /\ i \in DOMAIN emails_table => emails_table[i].status # "sent")
                 => /\ last'.route = "send-response"
                    /\ last'.code # 0
                    /\ last'.mail_sent
                    /\ last'.data.recipient = emails_table'[i].sender
                    /\ last'.data.subject = emails_table'[i].subject
       /\ (last'.route = "send-response" /\ last'.code # 0 /\ ~last'.mail_sent)
             => /\ DOMAIN emails_table' = DOMAIN emails_table
                /\ \A i \in DOMAIN emails_table :
                      emails_table'[i].status = emails_table[i].status]_vars

\* A send that failed at the SMTP server, for a pending row that a
\* successful send would mark, next to a row marked sent
C2_Witness ==
    /\ SendAnswer
    /\ last.code = 200
    /\ ~last.mail_sent
    /\ \E i, j \in DOMAIN emails_table :
          /\ emails_table[i].sender = last.data.recipient
          /\ emails_table[i].subject = last.data.subject
          /\ emails_table[i].status = "pending"
          /\ emails_table[j].status = "sent"

\* What C9 states of a request that returned, but for the status: every
\* returned result was persisted by exactly one INSERT of that request, the
\* row inserted carries the result's sentiment, priority, extracted_info
\* (as JSON) and ai_response, and is in the table
Persisted ==
    /\ Len(last.calls) = Len(last.processed_emails)
    /\ \A i, j \in DOMAIN last.calls :
          last.calls[i].row.id = last.calls[j].row.id => i = j
    /\ \A i \in DOMAIN last.processed_emails :
          /\ last.calls[i].insert = "ok"
          /\ LET row == last.calls[i].row
                 result == last.processed_emails[i]
             IN  /\ SameMessage(row, result)
                 /\ row.sentiment = result.sentiment
                 /\ row.priority = result.priority
                 /\ row.extracted_info = JsonDumps(result.extracted_info)
                 /\ row.ai_response = result.ai_response
                 /\ row.id \in DOMAIN emails_table
                 /\ Frozen(emails_table[row.id]) = Frozen(row)
    /\ \E p \in Bijections(Len(last.processed_emails)) :
          /\ Len(last.response.emails) = Len(last.processed_emails)
          /\ \A k \in DOMAIN last.response.emails :
                last.response.emails[k] = last.processed_emails[p[k]]

C10_StoreFrame ==
    [][/\ Len(emails_table') >= Len(emails_table)
       /\ \A i \in DOMAIN emails_table :
             /\ Frozen(emails_table'[i]) = Frozen(emails_table[i])
             /\ emails_table'[i].status \in {"pending", "sent"}
             /\ emails_table[i].status = "sent" => emails_table'[i].status = "sent"
       /\ last'.route = "send-response"
             => /\ Len(emails_table') = Len(emails_table)
                /\ \A i \in DOMAIN emails_table :
                      (\/ last'.code = 0
                       \/ ~last'.mail_sent
                       \/ emails_table[i].sender # last'.data.recipient
                       \/ emails_table[i].subject # last'.data.subject)
                          => emails_table'[i] = emails_table[i]
       /\ last'.route = "analytics" => emails_table' = emails_table]_vars

\* A successful send that marked one row and left a row of the same sender
\* with another subject pending
C10_Witness ==
    /\ SendAnswer
    /\ last.code = 200
    /\ last.response.success
    /\ \E i, j \in DOMAIN emails_table :
          /\ emails_table[i].sender = last.data.recipient
          /\ emails_table[i].subject = last.data.subject
          /\ emails_table[i].status = "sent"
          /\ emails_table[j].sender = last.data.recipient
          /\ emails_table[j].subject # last.data.subject
          /\ emails_table[j].status = "pending"

\* The text extract_key_info and analyze_sentiment work on under SpecText
TextLower == Lower(TextOf(emails[1][1].subject, emails[1][1].body))

\* The precedence of the request types: the keywords of a category, its entry
RequestTypes ==
    <<<<{KwBilling, KwPayment}, BillingIssue>>,
      <<{KwLogin, KwAccount}, AccountAccess>>,
      <<{KwIntegration, KwApi}, TechnicalIntegration>>,
      <<{KwRefund}, RefundRequest>>,
      <<{KwPricing}, PricingInquiry>>>>

FirstCategory(text_lower) ==
    LET hits == {r \in DOMAIN RequestTypes :
                    \E kw \in RequestTypes[r][1] : Contains(text_lower, kw)}
    IN  IF hits = {} THEN GeneralSupport
        ELSE RequestTypes[CHOOSE r \in hits : \A q \in hits : r <= q][2]

\* C7: extract returns a non-empty sequence with exactly one entry that
\* starts with "Request Type:", the first category that matches in the
\* fixed precedence; a Contact entry and a Phone entry, if any, come before
\* it, in that order.
C7_OneRequestType ==
    last.route = "extract_key_info" =>
        LET info == last.value
            n == Len(info)
        IN  /\ n >= 1
            /\ Cardinality({i \in 1..n : HasPrefix(info[i], RequestTypePrefix)}) = 1
            /\ info[n] = FirstCategory(TextLower)
            /\ HasPrefix(info[n], RequestTypePrefix)
            /\ \A i \in 1..(n - 1) :
                  HasPrefix(info[i], ContactPrefix) \/ HasPrefix(info[i], PhonePrefix)
            /\ \A i, j \in 1..(n - 1) :
                  i < j => HasPrefix(info[i], ContactPrefix) /\ HasPrefix(info[j], PhonePrefix)

\* Text with "billing" and "login", an address and a phone number
C7_Witness ==
    /\ last.route = "extract_key_info"
    /\ Contains(TextLower, KwBilling)
    /\ Contains(TextLower, KwLogin)
    /\ Len(last.value) = 3
    /\ last.value[3] = BillingIssue

\* How many times w occurs in text
Occurrences(text, w) ==
    Cardinality({i \in 0..(Len(text) - Len(w)) : SubSeq(text, i + 1, i + Len(w)) = w})

RECURSIVE TotalOccurrences(_, _)
TotalOccurrences(words, text) ==
    IF Len(words) = 0 THEN 0
    ELSE Occurrences(text, Head(words)) + TotalOccurrences(Tail(words), text)

\* How many of the words occur in text
WordsPresent(words, text) == Cardinality({k \in DOMAIN words : Contains(text, words[k])})

ByCounts(negative_count, positive_count) ==
    IF negative_count > positive_count THEN Negative
    ELSE IF positive_count > negative_count THEN Positive
    ELSE Neutral

\* C8 as stated: with the classifier failing, the occurrences of the words
\* of the two lists in the text are counted, and the greater count wins,
\* a tie being neutral.
C8_CountsOccurrences ==
    last.route = "analyze_sentiment" =>
        last.value = ByCounts(TotalOccurrences(negative_words, TextLower),
                              TotalOccurrences(positive_words, TextLower))

\* C8 as amended: with the classifier failing, each list counts how many of
\* its words occur at least once in the lowercased text (a word that occurs
\* several times counts once); negative if the negative count is strictly
\* greater, positive if the positive count is, neutral on a tie.
C8_CountsWordsPresent ==
    last.route = "analyze_sentiment" =>
        last.value = ByCounts(WordsPresent(negative_words, TextLower),
                              WordsPresent(positive_words, TextLower))

\* A text in which a repeated word would change the label
C8_Witness ==
    /\ last.route = "analyze_sentiment"
    /\ TotalOccurrences(negative_words, TextLower) > TotalOccurrences(positive_words, TextLower)
    /\ last.value = Positive

====
